---- MODULE Spec2Model ----
(***************************************************************************)
(* The auction subsystem of ecom-uv: the Auction model (schema defaults,   *)
(* pre-save hook, updateAuctionStatus, findActiveAndUpdateStatus) and the  *)
(* api/auctions route handlers.  A request is a sequence of steps, one per *)
(* stretch of code between two awaits; the database is touched only at the *)
(* awaited calls (findById, findOne, save), each of which is atomic.       *)
(*                                                                         *)
(* Time is counted in milliseconds, as Date.getTime() does, and money in   *)
(* cents.  createdAt, updatedAt and the populate() calls carry no          *)
(* behaviour and are left out.                                             *)
(***************************************************************************)
EXTENDS Integers, Sequences, FiniteSets, TLC

VARIABLES
    now,        \* the server clock, what new Date() returns
    stock,      \* Product.stock of every product
    auctions,   \* the auctions collection; an auction's _id is its index
    req,        \* the requests in flight, one per slot
    accepted,   \* history: the bids answered 200, per auction, in answer order
    orders,     \* the orders collection; an order's _id is its index
    oreq        \* the order requests in flight, one per slot

vars == <<now, stock, auctions, req, accepted, orders, oreq>>

----------------------------------------------------------------------------
(* Bounds of the model *)

MaxTime == 4        \* the clock stops after this many ticks
MaxBids == 2        \* bid requests are not started past this many stored bids
MaxViews == 1       \* single-auction reads are not started past this viewCount
MaxAuctions == 2
MaxOrders == 2
MaxQuantity == 2    \* create requests are not started past this many auctions

FiveMinutes == 5 * 60 * 1000

(* The clock is observed every two and a half minutes; T(k) is the k-th instant *)
TickStep == 150 * 1000
T(k) == k * TickStep

----------------------------------------------------------------------------
(* Values *)

Null == "null"          \* a null user reference
Undefined == 0 - 1      \* an absent number (reservePrice, buyNowPrice, body fields)

Products == {"p1"}
ProductSeller(p) == IF p = "p2" THEN "s2" ELSE "s1"

Users == {"s1", "s2", "adm", "b1", "b2"}
Sellers == {"s1", "s2", "adm", "b1"}      \* who asks for a create
Requesters == {"s1", "adm", "b1"}         \* who asks for an update, cancel, settle, list
Bidders == {"s1", "b1", "b2"}             \* who bids
Role(u) == IF u = "adm" THEN "admin" ELSE IF u \in {"s1", "s2"} THEN "seller" ELSE "buyer"

Slots == {1, 2}

StartTimes == {T(1)}
EndTimes == {T(1), T(2), T(3)}
StockLevels == {0, 1}
StartingBids == {10000}
ReservePrices == {Undefined, 10150}
Amounts == {10000, 10100, 10150, 10200}

Terminal == {"Cancelled", "Sold", "Expired"}
Blocking == {"Upcoming", "Active", "Pending"}

NoAuction ==
    [product |-> Null, seller |-> Null, startTime |-> Undefined, endTime |-> Undefined,
     startingBid |-> Undefined, currentHighestBid |-> Undefined,
     currentHighestBidder |-> Null, bids |-> <<>>, status |-> "none", winner |-> Null,
     reservePrice |-> Undefined, buyNowPrice |-> Undefined, viewCount |-> 0]

NoBody ==
    [product |-> Null, startTime |-> Undefined, endTime |-> Undefined,
     startingBid |-> Undefined, reservePrice |-> Undefined, buyNowPrice |-> Undefined,
     amount |-> Undefined]

(* Request bodies.  A field left Undefined (Null for product) is absent. *)
CreateBodies ==
    {[NoBody EXCEPT !.product = p, !.startTime = s, !.endTime = e,
                    !.startingBid = b, !.reservePrice = rp] :
        p \in Products, s \in StartTimes, e \in EndTimes, b \in StartingBids,
        rp \in ReservePrices}

UpdateBodies ==
    {[NoBody EXCEPT !.endTime = T(4)],
     [NoBody EXCEPT !.startTime = T(3)],
     [NoBody EXCEPT !.startTime = T(2), !.endTime = T(2)],
     [NoBody EXCEPT !.reservePrice = 0],
     [NoBody EXCEPT !.reservePrice = 10150],
     [NoBody EXCEPT !.startingBid = 10100]}

Idle ==
    [op |-> "none", pc |-> "done", user |-> Null, id |-> 0, body |-> NoBody,
     stockSeen |-> 0, batch |-> <<>>, orig |-> NoAuction, doc |-> NoAuction,
     res |-> "none"]

(* Orders: the products on sale, the items and bodies of POST api/orders (an
   empty orderItems fails validation), who asks, and the status values of
   PUT .../status ("Returned" is not in the accepted list) *)
OrderProducts == {"p1", "p2"}
OrderUsers == {"b1"}
OrderRequesters == {"s1", "s2", "adm", "b1"}
OrderItems == {[product |-> p, quantity |-> q] : p \in OrderProducts, q \in 1..MaxQuantity}
OrderBodies ==
    {<<>>} \cup {<<i>> : i \in OrderItems} \cup {<<i, j>> : i \in OrderItems, j \in OrderItems}
SellerStatuses == {"Pending", "Processing", "Shipped", "Delivered", "Cancelled"}
StatusBodies == SellerStatuses \cup {"Returned"}
EntryIds == {1, 2}

NoOrder ==
    [user |-> Null, orderItems |-> <<>>, sellerWiseStatus |-> <<>>,
     orderStatus |-> "Pending", isPaid |-> FALSE, isDelivered |-> FALSE]

OIdle ==
    [op |-> "none", pc |-> "done", user |-> Null, id |-> 0, items |-> <<>>, todo |-> {},
     entry |-> 0, status |-> Null, orig |-> NoOrder, doc |-> NoOrder, res |-> "none"]

----------------------------------------------------------------------------
(* The Auction model *)

(* reservePrice || 0 *)
ReserveOrZero(a) == IF a.reservePrice = Undefined THEN 0 ELSE a.reservePrice

(* Faulty variants of updateAuctionStatus: without the final-state guard; with the end
   instant still counted as running *)
updateAuctionStatusNoFinal(a, t) ==
    IF t < a.startTime THEN "Upcoming"
    ELSE IF t >= a.startTime /\ t < a.endTime THEN "Active"
    ELSE IF a.currentHighestBidder # Null /\ a.currentHighestBid >= ReserveOrZero(a)
         THEN "Ended"
         ELSE "Expired"

updateAuctionStatusLate(a, t) ==
    IF a.status \in Terminal THEN a.status
    ELSE IF t < a.startTime THEN "Upcoming"
    ELSE IF t >= a.startTime /\ t <= a.endTime THEN "Active"
    ELSE IF a.currentHighestBidder # Null /\ a.currentHighestBid >= ReserveOrZero(a)
         THEN "Ended"
         ELSE "Expired"

(* Faulty variant of updateAuctionStatus: the reserve price is not looked at *)
updateAuctionStatusNoReserve(a, t) ==
    IF a.status \in Terminal THEN a.status
    ELSE IF t < a.startTime THEN "Upcoming"
    ELSE IF t >= a.startTime /\ t < a.endTime THEN "Active"
    ELSE IF a.currentHighestBidder # Null THEN "Ended" ELSE "Expired"

updateAuctionStatus(a, t) ==
    IF a.status \in Terminal THEN a.status
    ELSE IF t < a.startTime THEN "Upcoming"
    ELSE IF t >= a.startTime /\ t < a.endTime THEN "Active"
    ELSE IF a.currentHighestBidder # Null /\ a.currentHighestBid >= ReserveOrZero(a)
         THEN "Ended"
         ELSE "Expired"

Last(s) == s[Len(s)]

(* Faulty variant of Refreshed: an Ended auction is given its winner at once *)
RefreshedWithWinner(a, t) ==
    LET st == updateAuctionStatus(a, t) IN
    IF st = "Ended" THEN [a EXCEPT !.status = st, !.winner = a.currentHighestBidder]
    ELSE [a EXCEPT !.status = st]

Refreshed(a, t) == [a EXCEPT !.status = updateAuctionStatus(a, t)]

(* AuctionSchema.pre('save') *)
PreSave(a) ==
    IF a.currentHighestBid < a.startingBid /\ Len(a.bids) = 0
    THEN [a EXCEPT !.currentHighestBid = a.startingBid]
    ELSE a

(* What save() of a loaded document sends: the paths set to a new value since it
   was loaded or last saved ($set), and the elements pushed on bids ($push). *)
Pick(stored, loaded, local, f) == IF local[f] # loaded[f] THEN local[f] ELSE stored[f]

PushedBids(loaded, local) == SubSeq(local.bids, Len(loaded.bids) + 1, Len(local.bids))

(* Faulty variant of SaveDoc: bids is written as the pushed elements alone *)
SaveDocPushedOnly(stored, loaded, local) ==
    [product |-> Pick(stored, loaded, local, "product"),
     seller |-> Pick(stored, loaded, local, "seller"),
     startTime |-> Pick(stored, loaded, local, "startTime"),
     endTime |-> Pick(stored, loaded, local, "endTime"),
     startingBid |-> Pick(stored, loaded, local, "startingBid"),
     currentHighestBid |-> Pick(stored, loaded, local, "currentHighestBid"),
     currentHighestBidder |-> Pick(stored, loaded, local, "currentHighestBidder"),
     bids |-> IF PushedBids(loaded, local) = <<>> THEN stored.bids
              ELSE PushedBids(loaded, local),
     status |-> Pick(stored, loaded, local, "status"),
     winner |-> Pick(stored, loaded, local, "winner"),
     reservePrice |-> Pick(stored, loaded, local, "reservePrice"),
     buyNowPrice |-> Pick(stored, loaded, local, "buyNowPrice"),
     viewCount |-> Pick(stored, loaded, local, "viewCount")]

SaveDoc(stored, loaded, local) ==
    [product |-> Pick(stored, loaded, local, "product"),
     seller |-> Pick(stored, loaded, local, "seller"),
     startTime |-> Pick(stored, loaded, local, "startTime"),
     endTime |-> Pick(stored, loaded, local, "endTime"),
     startingBid |-> Pick(stored, loaded, local, "startingBid"),
     currentHighestBid |-> Pick(stored, loaded, local, "currentHighestBid"),
     currentHighestBidder |-> Pick(stored, loaded, local, "currentHighestBidder"),
     bids |-> stored.bids \o PushedBids(loaded, local),
     status |-> Pick(stored, loaded, local, "status"),
     winner |-> Pick(stored, loaded, local, "winner"),
     reservePrice |-> Pick(stored, loaded, local, "reservePrice"),
     buyNowPrice |-> Pick(stored, loaded, local, "buyNowPrice"),
     viewCount |-> Pick(stored, loaded, local, "viewCount")]

(* Faulty variant of DuplicateKey: the schema without unique: true *)
NoUniqueIndex(coll, a) == FALSE

(* The unique index on Auction.product: an insert is refused when the collection
   already holds an auction of that product. *)
DuplicateKey(coll, a) == \E i \in DOMAIN coll : coll[i].product = a.product

----------------------------------------------------------------------------
(* State *)

Init ==
    /\ now = 0
    /\ stock \in [Products -> StockLevels]
    /\ auctions = <<>>
    /\ req = [r \in Slots |-> Idle]
    /\ accepted = <<>>
    /\ orders = <<>>
    /\ oreq = [r \in Slots |-> OIdle]

(* A slot is free once its request is answered *)
Free(r) == req[r].pc = "done"

Set(r, rec) == req' = [req EXCEPT ![r] = rec]

(* res.status(...) of every answer *)
HttpStatus(tag) ==
    IF tag \in {"roleDenied", "notOwner", "ownAuction", "notAuthorized"} THEN 403
    ELSE IF tag = "serverError" THEN 500
    ELSE IF tag = "created" THEN 201
    ELSE IF tag \in {"validation", "duplicate", "outOfStock", "notActive", "notHigher",
                     "belowIncrement", "bidsPlaced", "timingLocked", "cannotCancel",
                     "activeWithBids", "notEnded", "noWinner", "reserveNotMet",
                     "notEnoughStock"} THEN 400
    ELSE IF tag = "entryNotFound" THEN 404
    ELSE 200

(* The response is sent: the slot keeps the operation, the auction and the answer
   (the status shown, for a list; the bidder and the amount too, for a bid) *)
Done(r, tag) == Set(r, [Idle EXCEPT !.op = req[r].op, !.id = req[r].id, !.res = tag])

Tick ==
    /\ now < T(MaxTime)
    /\ now' = now + TickStep
    /\ UNCHANGED <<stock, auctions, req, accepted, orders, oreq>>

----------------------------------------------------------------------------
(* POST api/auctions *)

(* The request arrives, passes authorizeRole and the validators, and
   Product.findById answers *)
StartCreate(r) ==
    /\ Free(r)
    /\ Len(auctions) < MaxAuctions
    /\ \E u \in Sellers, b \in CreateBodies :
          LET q == [Idle EXCEPT !.op = "create", !.user = u, !.body = b] IN
          IF Role(u) \notin {"seller", "admin"}
          THEN Set(r, [q EXCEPT !.res = "roleDenied"])
          ELSE IF b.endTime <= b.startTime
          THEN Set(r, [q EXCEPT !.res = "validation"])
          ELSE IF Role(u) # "admin" /\ ProductSeller(b.product) # u
          THEN Set(r, [q EXCEPT !.res = "notOwner"])
          ELSE Set(r, [q EXCEPT !.pc = "cFind", !.stockSeen = stock[b.product]])
    /\ UNCHANGED <<now, stock, auctions, accepted, orders, oreq>>

(* Faulty variants of NewAuction: the highest bid starts at the reserve price;
   the status stays the one the constructor was given *)
NewAuctionReserveHighest(b, t) ==
    Refreshed(
        [NoAuction EXCEPT
            !.product = b.product,
            !.seller = ProductSeller(b.product),
            !.startTime = b.startTime,
            !.endTime = b.endTime,
            !.startingBid = b.startingBid,
            !.currentHighestBid = ReserveOrZero(b),
            !.reservePrice = b.reservePrice,
            !.buyNowPrice = b.buyNowPrice,
            !.status = IF b.startTime <= t THEN "Active" ELSE "Upcoming"],
        t)

NewAuctionHardcoded(b, t) ==
    [NoAuction EXCEPT
        !.product = b.product,
        !.seller = ProductSeller(b.product),
        !.startTime = b.startTime,
        !.endTime = b.endTime,
        !.startingBid = b.startingBid,
        !.currentHighestBid = b.startingBid,
        !.reservePrice = b.reservePrice,
        !.buyNowPrice = b.buyNowPrice,
        !.status = IF b.startTime <= t THEN "Active" ELSE "Upcoming"]

NewAuction(b, t) ==
    Refreshed(
        [NoAuction EXCEPT
            !.product = b.product,
            !.seller = ProductSeller(b.product),
            !.startTime = b.startTime,
            !.endTime = b.endTime,
            !.startingBid = b.startingBid,
            !.currentHighestBid = b.startingBid,
            !.reservePrice = b.reservePrice,
            !.buyNowPrice = b.buyNowPrice,
            !.status = IF b.startTime <= t THEN "Active" ELSE "Upcoming"],
        t)

ExistingAuction(coll, p) ==
    \E i \in DOMAIN coll : coll[i].product = p /\ coll[i].status \in Blocking

CreateFindExisting(r) ==
    /\ req[r].pc = "cFind"
    /\ LET q == req[r] IN
       IF ExistingAuction(auctions, q.body.product)
       THEN Done(r, "duplicate")
       ELSE IF q.stockSeen < 1
       THEN Done(r, "outOfStock")
       ELSE Set(r, [q EXCEPT !.pc = "cSave", !.doc = NewAuction(q.body, now)])
    /\ UNCHANGED <<now, stock, auctions, accepted, orders, oreq>>

Insert(coll, a) == IF DuplicateKey(coll, a) THEN coll ELSE Append(coll, a)

CreateSave(r) ==
    /\ req[r].pc = "cSave"
    /\ LET q == req[r]
           a == PreSave(q.doc) IN
       /\ auctions' = Insert(auctions, a)
       /\ IF DuplicateKey(auctions, a)
          THEN Done(r, "serverError")
          ELSE Set(r, [Idle EXCEPT !.op = "create", !.res = "created",
                                   !.id = Len(auctions) + 1])
    /\ UNCHANGED <<now, stock, accepted, orders, oreq>>

----------------------------------------------------------------------------
(* updateAuctionStatusMiddleware: findById, updateAuctionStatus, save.  A Start
   action is the request arriving and the middleware's findById answering.  The
   middleware reads neither req.user nor req.body: the handler's action draws
   them, where the code first reads them. *)

Loaded(q) == [q EXCEPT !.pc = "mwLoaded", !.orig = auctions[q.id], !.doc = auctions[q.id]]

StartGet(r) ==
    /\ Free(r)
    /\ \E i \in DOMAIN auctions :
          /\ auctions[i].viewCount < MaxViews
          /\ Set(r, Loaded([Idle EXCEPT !.op = "get", !.id = i]))
    /\ UNCHANGED <<now, stock, auctions, accepted, orders, oreq>>

StartBid(r) ==
    /\ Free(r)
    /\ \E i \in DOMAIN auctions :
          /\ Len(auctions[i].bids) < MaxBids
          /\ Set(r, Loaded([Idle EXCEPT !.op = "bid", !.id = i]))
    /\ UNCHANGED <<now, stock, auctions, accepted, orders, oreq>>

StartGetBids(r) ==
    /\ Free(r)
    /\ \E i \in DOMAIN auctions :
          Set(r, Loaded([Idle EXCEPT !.op = "getBids", !.id = i]))
    /\ UNCHANGED <<now, stock, auctions, accepted, orders, oreq>>

StartUpdate(r) ==
    /\ Free(r)
    /\ \E i \in DOMAIN auctions :
          Set(r, Loaded([Idle EXCEPT !.op = "update", !.id = i]))
    /\ UNCHANGED <<now, stock, auctions, accepted, orders, oreq>>

StartCancel(r) ==
    /\ Free(r)
    /\ \E i \in DOMAIN auctions :
          Set(r, Loaded([Idle EXCEPT !.op = "cancel", !.id = i]))
    /\ UNCHANGED <<now, stock, auctions, accepted, orders, oreq>>

StartSettle(r) ==
    /\ Free(r)
    /\ \E i \in DOMAIN auctions, u \in Requesters :
          LET q == [Idle EXCEPT !.op = "settle", !.id = i, !.user = u] IN
          IF Role(u) \notin {"admin", "seller"}
          THEN Set(r, [q EXCEPT !.res = "roleDenied"])
          ELSE Set(r, Loaded(q))
    /\ UNCHANGED <<now, stock, auctions, accepted, orders, oreq>>

MwRefresh(r) ==
    /\ req[r].pc = "mwLoaded"
    /\ Set(r, [req[r] EXCEPT !.pc = "mwSave", !.doc = Refreshed(req[r].doc, now)])
    /\ UNCHANGED <<now, stock, auctions, accepted, orders, oreq>>

(* await auction.save(): the write lands, the document is clean again *)
Saved(r) == PreSave(req[r].doc)

Write(r) ==
    auctions' = [auctions EXCEPT ![req[r].id] = SaveDoc(@, req[r].orig, Saved(r))]

MwSave(r) ==
    /\ req[r].pc = "mwSave"
    /\ Write(r)
    /\ Set(r, [req[r] EXCEPT !.pc = "handler", !.orig = Saved(r), !.doc = Saved(r)])
    /\ UNCHANGED <<now, stock, accepted, orders, oreq>>

----------------------------------------------------------------------------
(* The handlers behind the middleware.  ToSave(r, d, tag) leaves the handler at
   its await auction.save(), with the answer that follows it. *)

ToSave(r, d, tag) == Set(r, [req[r] EXCEPT !.pc = "save", !.doc = d, !.res = tag])

AtHandler(r, op) == req[r].pc = "handler" /\ req[r].op = op

(* GET api/auctions/:id *)
HandleGet(r) ==
    /\ AtHandler(r, "get")
    /\ ToSave(r, [req[r].doc EXCEPT !.viewCount = @ + 1], "ok")
    /\ UNCHANGED <<now, stock, auctions, accepted, orders, oreq>>

(* POST api/auctions/:id/bids *)
BelowMinNextBid(a, amt) == amt * 100 < a.currentHighestBid * 100 + a.startingBid

(* Faulty variant of BidVerdict: the amount is checked before the bidder *)
BidVerdictAmountFirst(a, u, amt) ==
    IF a.status # "Active" THEN "notActive"
    ELSE IF amt <= a.currentHighestBid THEN "notHigher"
    ELSE IF a.seller = u THEN "ownAuction"
    ELSE IF BelowMinNextBid(a, amt) /\ Len(a.bids) > 0 THEN "belowIncrement"
    ELSE "ok"

BidVerdict(a, u, amt) ==
    IF a.status # "Active" THEN "notActive"
    ELSE IF a.seller = u THEN "ownAuction"
    ELSE IF amt <= a.currentHighestBid THEN "notHigher"
    ELSE IF BelowMinNextBid(a, amt) /\ Len(a.bids) > 0 THEN "belowIncrement"
    ELSE "ok"

(* Faulty variant of ExtendedEnd: five minutes are added to the old end *)
ExtendedEndFromOld(a, t) ==
    IF a.endTime - t < FiveMinutes THEN a.endTime + FiveMinutes ELSE a.endTime

ExtendedEnd(a, t) == IF a.endTime - t < FiveMinutes THEN t + FiveMinutes ELSE a.endTime

(* Faulty variant of RecordBid: the highest bid is not updated *)
RecordBidStaleHighest(a, u, amt, t) ==
    [a EXCEPT !.bids = Append(@, [user |-> u, amount |-> amt, timestamp |-> t]),
              !.currentHighestBidder = u,
              !.endTime = ExtendedEnd(a, t)]

RecordBid(a, u, amt, t) ==
    [a EXCEPT !.bids = Append(@, [user |-> u, amount |-> amt, timestamp |-> t]),
              !.currentHighestBid = amt,
              !.currentHighestBidder = u,
              !.endTime = ExtendedEnd(a, t)]

HandleBidOf(r, users, amounts) ==
    /\ AtHandler(r, "bid")
    /\ \E u \in users, amt \in amounts :
          LET v == BidVerdict(req[r].doc, u, amt)
              b == [NoBody EXCEPT !.amount = amt] IN
          IF v # "ok"
          THEN Set(r, [Idle EXCEPT !.op = "bid", !.id = req[r].id, !.user = u,
                                   !.body = b, !.res = v])
          ELSE Set(r, [req[r] EXCEPT !.pc = "save", !.user = u, !.body = b, !.res = "ok",
                                     !.doc = RecordBid(req[r].doc, u, amt, now)])
    /\ UNCHANGED <<now, stock, auctions, accepted, orders, oreq>>

HandleBid(r) == HandleBidOf(r, Bidders, Amounts)

(* GET api/auctions/:id/bids: sorts the loaded array, newest first, and answers
   with it (kept in the slot's doc.bids); no save *)
RECURSIVE InsertBid(_, _)
InsertBid(s, b) ==
    IF s = <<>> THEN <<b>>
    ELSE IF Head(s).timestamp >= b.timestamp THEN <<Head(s)>> \o InsertBid(Tail(s), b)
    ELSE <<b>> \o s

RECURSIVE SortNewestFirst(_)
SortNewestFirst(s) ==
    IF s = <<>> THEN <<>>
    ELSE InsertBid(SortNewestFirst(SubSeq(s, 1, Len(s) - 1)), s[Len(s)])

HandleGetBids(r) ==
    /\ AtHandler(r, "getBids")
    /\ Set(r, [Idle EXCEPT !.op = "getBids", !.id = req[r].id, !.res = "ok",
                           !.doc = [NoAuction EXCEPT
                                       !.bids = SortNewestFirst(req[r].doc.bids)]])
    /\ UNCHANGED <<now, stock, auctions, accepted, orders, oreq>>

(* PUT api/auctions/:id *)
Truthy(x) == x # Undefined /\ x # 0

(* Faulty variant of UpdateVerdict: the timing guard is left out *)
UpdateVerdictNoTimingLock(a, u, b) ==
    IF b.endTime # Undefined
       /\ b.endTime <= (IF b.startTime # Undefined THEN b.startTime ELSE a.startTime)
    THEN "validation"
    ELSE IF a.seller # u /\ Role(u) # "admin" THEN "notAuthorized"
    ELSE IF Len(a.bids) > 0
            /\ (Truthy(b.startingBid) \/ b.product # Null \/ Truthy(b.reservePrice))
    THEN "bidsPlaced"
    ELSE "ok"

UpdateVerdict(a, u, b) ==
    IF b.endTime # Undefined
       /\ b.endTime <= (IF b.startTime # Undefined THEN b.startTime ELSE a.startTime)
    THEN "validation"
    ELSE IF a.seller # u /\ Role(u) # "admin" THEN "notAuthorized"
    ELSE IF Len(a.bids) > 0
            /\ (Truthy(b.startingBid) \/ b.product # Null \/ Truthy(b.reservePrice))
    THEN "bidsPlaced"
    ELSE IF a.status # "Upcoming"
            /\ (b.startTime # Undefined \/ b.endTime # Undefined \/ Truthy(b.startingBid))
            /\ Len(a.bids) > 0
    THEN "timingLocked"
    ELSE "ok"

ApplyUpdates(a, b, t) ==
    Refreshed(
        [a EXCEPT
            !.startTime = IF b.startTime # Undefined THEN b.startTime ELSE @,
            !.endTime = IF b.endTime # Undefined THEN b.endTime ELSE @,
            !.reservePrice = IF b.reservePrice # Undefined THEN b.reservePrice ELSE @,
            !.buyNowPrice = IF b.buyNowPrice # Undefined THEN b.buyNowPrice ELSE @],
        t)

HandleUpdate(r) ==
    /\ AtHandler(r, "update")
    /\ \E u \in Requesters, b \in UpdateBodies :
          LET v == UpdateVerdict(req[r].doc, u, b) IN
          IF v # "ok" THEN Done(r, v)
          ELSE ToSave(r, ApplyUpdates(req[r].doc, b, now), "ok")
    /\ UNCHANGED <<now, stock, auctions, accepted, orders, oreq>>

(* DELETE api/auctions/:id *)
CancelVerdict(a, u) ==
    IF a.seller # u /\ Role(u) # "admin" THEN "notAuthorized"
    ELSE IF a.status \in {"Ended", "Sold", "Expired"} THEN "cannotCancel"
    ELSE IF a.status = "Active" /\ Len(a.bids) > 0 /\ Role(u) # "admin"
    THEN "activeWithBids"
    ELSE "ok"

HandleCancel(r) ==
    /\ AtHandler(r, "cancel")
    /\ \E u \in Requesters :
          LET v == CancelVerdict(req[r].doc, u) IN
          IF v # "ok" THEN Done(r, v)
          ELSE ToSave(r, [req[r].doc EXCEPT !.status = "Cancelled"], "ok")
    /\ UNCHANGED <<now, stock, auctions, accepted, orders, oreq>>

(* POST api/auctions/:id/process-winner *)
(* Faulty variant of SettleVerdict: the status is not looked at *)
SettleVerdictAnyStatus(a, u) ==
    IF a.seller # u /\ Role(u) # "admin" THEN "notAuthorized"
    ELSE IF a.currentHighestBidder = Null THEN "noWinner"
    ELSE IF Truthy(a.reservePrice) /\ a.currentHighestBid < a.reservePrice
    THEN "reserveNotMet"
    ELSE "ok"

SettleVerdict(a, u) ==
    IF a.seller # u /\ Role(u) # "admin" THEN "notAuthorized"
    ELSE IF a.status # "Ended" THEN "notEnded"
    ELSE IF a.currentHighestBidder = Null THEN "noWinner"
    ELSE IF Truthy(a.reservePrice) /\ a.currentHighestBid < a.reservePrice
    THEN "reserveNotMet"
    ELSE "ok"

HandleSettle(r) ==
    /\ AtHandler(r, "settle")
    /\ LET q == req[r]
           v == SettleVerdict(q.doc, q.user) IN
       IF v = "reserveNotMet" THEN ToSave(r, [q.doc EXCEPT !.status = "Expired"], v)
       ELSE IF v # "ok" THEN Done(r, v)
       ELSE ToSave(r, [q.doc EXCEPT !.winner = q.doc.currentHighestBidder,
                                    !.status = "Sold"], "ok")
    /\ UNCHANGED <<now, stock, auctions, accepted, orders, oreq>>

(* The handler's await auction.save(), then the response *)
HandlerSave(r) ==
    /\ req[r].pc = "save"
    /\ Write(r)
    /\ Set(r, [Idle EXCEPT !.op = req[r].op, !.id = req[r].id, !.user = req[r].user,
                           !.body = req[r].body, !.res = req[r].res])
    /\ accepted' = IF req[r].op = "bid"
                   THEN Append(accepted, [id |-> req[r].id, bid |-> Last(req[r].doc.bids)])
                   ELSE accepted
    /\ UNCHANGED <<now, stock, orders, oreq>>

----------------------------------------------------------------------------
(* GET api/auctions/myauctions: find, then updateAuctionStatus on every document
   of the answer, without a save.  The slot follows one document of the answer. *)

Listed(u) == {i \in DOMAIN auctions : Role(u) = "admin" \/ auctions[i].seller = u}

StartList(r) ==
    /\ Free(r)
    /\ \E u \in Requesters :
          LET q == [Idle EXCEPT !.op = "list", !.user = u] IN
          IF Role(u) \notin {"seller", "admin"}
          THEN Set(r, [q EXCEPT !.res = "roleDenied"])
          ELSE IF Listed(u) = {}
          THEN Set(r, [q EXCEPT !.res = "ok"])
          ELSE \E i \in Listed(u) :
                  Set(r, [q EXCEPT !.pc = "listLoaded", !.id = i,
                                   !.orig = auctions[i], !.doc = auctions[i]])
    /\ UNCHANGED <<now, stock, auctions, accepted, orders, oreq>>

ListRespond(r) ==
    /\ req[r].pc = "listLoaded"
    /\ Done(r, Refreshed(req[r].doc, now).status)
    /\ UNCHANGED <<now, stock, auctions, accepted, orders, oreq>>

----------------------------------------------------------------------------
(* Auction.findActiveAndUpdateStatus: one find, then for every document found
   updateAuctionStatus, the winner assignment and an awaited save *)

Due(a, t) == a.status \in {"Upcoming", "Active"} /\ a.endTime <= t

FoundToUpdate(coll, t) ==
    LET ids == SelectSeq([i \in 1..Len(coll) |-> i], LAMBDA i : Due(coll[i], t)) IN
    [k \in 1..Len(ids) |-> [id |-> ids[k], doc |-> coll[ids[k]]]]

StartSweep(r) ==
    /\ Free(r)
    /\ auctions # <<>>
    /\ LET found == FoundToUpdate(auctions, now) IN
       IF found = <<>> THEN Set(r, [Idle EXCEPT !.op = "sweep", !.res = "ok"])
       ELSE Set(r, [Idle EXCEPT !.op = "sweep", !.pc = "sweepNext", !.batch = found])
    /\ UNCHANGED <<now, stock, auctions, accepted, orders, oreq>>

SweepOne(a, t) ==
    LET b == Refreshed(a, t) IN
    IF b.status = "Ended" /\ b.currentHighestBidder # Null
    THEN [b EXCEPT !.winner = b.currentHighestBidder]
    ELSE b

SweepNext(r) ==
    /\ req[r].pc = "sweepNext"
    /\ LET h == Head(req[r].batch) IN
       Set(r, [req[r] EXCEPT !.pc = "sweepSave", !.id = h.id, !.orig = h.doc,
                             !.doc = SweepOne(h.doc, now), !.batch = Tail(@)])
    /\ UNCHANGED <<now, stock, auctions, accepted, orders, oreq>>

SweepSave(r) ==
    /\ req[r].pc = "sweepSave"
    /\ Write(r)
    /\ IF req[r].batch = <<>> THEN Done(r, "ok")
       ELSE Set(r, [req[r] EXCEPT !.pc = "sweepNext", !.orig = NoAuction,
                                  !.doc = NoAuction])
    /\ UNCHANGED <<now, stock, accepted, orders, oreq>>

----------------------------------------------------------------------------
(* Specifications *)

Step(r) ==
    \/ StartCreate(r) \/ CreateFindExisting(r) \/ CreateSave(r)
    \/ StartGet(r) \/ StartBid(r) \/ StartGetBids(r) \/ StartUpdate(r)
    \/ StartCancel(r) \/ StartSettle(r)
    \/ MwRefresh(r) \/ MwSave(r)
    \/ HandleGet(r) \/ HandleBid(r) \/ HandleGetBids(r) \/ HandleUpdate(r)
    \/ HandleCancel(r) \/ HandleSettle(r) \/ HandlerSave(r)
    \/ StartList(r) \/ ListRespond(r)
    \/ StartSweep(r) \/ SweepNext(r) \/ SweepSave(r)

(* Requests served one at a time: the next one starts when the last has answered *)
Next == Tick \/ Step(1)

Spec == Init /\ [][Next]_vars

(* Two bid requests overlap, on an auction created before its start time *)
RaceBidders == {"b1", "b2"}
RaceAmounts == {10100, 10200}

InitBids ==
    /\ now = 0
    /\ stock = [p \in Products |-> 1]
    /\ \E b \in CreateBodies :
          /\ b.endTime > b.startTime
          /\ auctions = <<NewAuction(b, 0)>>
    /\ req = [r \in Slots |-> Idle]
    /\ accepted = <<>>
    /\ orders = <<>>
    /\ oreq = [r \in Slots |-> OIdle]

NextBids ==
    \/ Tick
    \/ \E r \in Slots :
          \/ StartBid(r) \/ MwRefresh(r) \/ MwSave(r)
          \/ HandleBidOf(r, RaceBidders, RaceAmounts) \/ HandlerSave(r)

SpecBids == InitBids /\ [][NextBids]_vars

(* A bid request (slot 1) overlaps a settle or a cancel request (slot 2) *)
NextClose ==
    \/ Tick
    \/ StartBid(1) \/ HandleBidOf(1, RaceBidders, RaceAmounts)
    \/ StartCancel(2) \/ HandleCancel(2)
    \/ StartSettle(2) \/ HandleSettle(2)
    \/ \E r \in Slots : MwRefresh(r) \/ MwSave(r) \/ HandlerSave(r)

SpecClose == InitBids /\ [][NextClose]_vars

(* Two create requests overlap; slot 1 also cancels *)
NextCreates ==
    \/ Tick
    \/ \E r \in Slots : StartCreate(r) \/ CreateFindExisting(r) \/ CreateSave(r)
    \/ StartCancel(1) \/ MwRefresh(1) \/ MwSave(1) \/ HandleCancel(1) \/ HandlerSave(1)

SpecCreates == Init /\ [][NextCreates]_vars

(* Two single-auction reads overlap *)
NextViews ==
    \/ Tick
    \/ \E r \in Slots :
          \/ StartGet(r) \/ MwRefresh(r) \/ MwSave(r)
          \/ HandleGet(r) \/ HandlerSave(r)

SpecViews == InitBids /\ [][NextViews]_vars

(* updateAuctionStatus as a function: any stored auction, any instant, and the
   middleware applied to it by a bid-history read *)
StoredAuctions ==
    {[NoAuction EXCEPT
        !.product = "p1", !.seller = "s1", !.startTime = st, !.endTime = en,
        !.startingBid = 10000, !.status = s, !.reservePrice = rp,
        !.currentHighestBid = IF hasBid THEN 10100 ELSE 10000,
        !.currentHighestBidder = IF hasBid THEN "b1" ELSE Null,
        !.bids = IF hasBid
                 THEN <<[user |-> "b1", amount |-> 10100, timestamp |-> T(1)]>>
                 ELSE <<>>] :
        st \in {T(1), T(3)}, en \in {T(2), T(3)},
        s \in {"Pending", "Upcoming", "Active", "Ended", "Sold", "Expired", "Cancelled"},
        rp \in {Undefined, 0, 10150}, hasBid \in BOOLEAN}

InitRefresh ==
    /\ now \in {T(k) : k \in 0..MaxTime}
    /\ stock = [p \in Products |-> 1]
    /\ auctions \in {<<a>> : a \in StoredAuctions}
    /\ req = [r \in Slots |-> Idle]
    /\ accepted = <<>>
    /\ orders = <<>>
    /\ oreq = [r \in Slots |-> OIdle]

NextRefresh == StartGetBids(1) \/ MwRefresh(1) \/ MwSave(1) \/ HandleGetBids(1)

SpecRefresh == InitRefresh /\ [][NextRefresh]_vars

----------------------------------------------------------------------------
(* The orders routes.  Prices, addresses and dates of an order are left out. *)

OFree(r) == oreq[r].pc = "done"

OSet(r, rec) == oreq' = [oreq EXCEPT ![r] = rec]

ODone(r, tag) ==
    OSet(r, [OIdle EXCEPT !.op = oreq[r].op, !.id = oreq[r].id, !.user = oreq[r].user,
                          !.res = tag])

(* sellerWiseStatusMap: one Pending entry per seller, in order of first item *)
RECURSIVE SellerWiseStatusMap(_, _)
SellerWiseStatusMap(items, acc) ==
    IF items = <<>> THEN acc
    ELSE LET s == ProductSeller(Head(items).product) IN
         SellerWiseStatusMap(Tail(items),
             IF \E k \in DOMAIN acc : acc[k].sellerId = s THEN acc
             ELSE Append(acc, [sellerId |-> s, status |-> "Pending"]))

NewOrder(u, items) ==
    [user |-> u, orderItems |-> items,
     sellerWiseStatus |-> SellerWiseStatusMap(items, <<>>),
     orderStatus |-> "Pending", isPaid |-> FALSE, isDelivered |-> FALSE]

InFlightOrders == {s \in Slots : oreq[s].op = "order" /\ oreq[s].pc \in {"check", "insert"}}

(* POST api/orders: validation, then one findById and stock test per item *)
StartOrder(r) ==
    /\ OFree(r)
    /\ Len(orders) + Cardinality(InFlightOrders) < MaxOrders
    /\ \E u \in OrderUsers, b \in OrderBodies :
          IF b = <<>>
          THEN OSet(r, [OIdle EXCEPT !.op = "order", !.user = u, !.res = "validation"])
          ELSE OSet(r, [OIdle EXCEPT !.op = "order", !.pc = "check", !.user = u,
                                     !.items = b, !.todo = DOMAIN b])
    /\ UNCHANGED <<now, stock, auctions, req, accepted, orders>>

OrderCheckItem(r) ==
    /\ oreq[r].pc = "check"
    /\ \E k \in oreq[r].todo :
          LET item == oreq[r].items[k]
              rest == oreq[r].todo \ {k}
          IN  IF stock[item.product] < item.quantity
              THEN ODone(r, "notEnoughStock")
              ELSE OSet(r, [oreq[r] EXCEPT !.todo = rest,
                                           !.pc = IF rest = {} THEN "insert" ELSE "check"])
    /\ UNCHANGED <<now, stock, auctions, req, accepted, orders>>

(* await newOrder.save() *)
OrderInsert(r) ==
    /\ oreq[r].pc = "insert"
    /\ orders' = Append(orders, NewOrder(oreq[r].user, oreq[r].items))
    /\ OSet(r, [oreq[r] EXCEPT !.pc = "decrement", !.id = Len(orders) + 1,
                                !.todo = DOMAIN oreq[r].items])
    /\ UNCHANGED <<now, stock, auctions, req, accepted>>

(* Product.findByIdAndUpdate(item.product, { $inc: { stock: -item.quantity } }) *)
DecrementStock(s, item) == [s EXCEPT ![item.product] = @ - item.quantity]

(* One findByIdAndUpdate per item, in any order; the answer follows the last *)
OrderDecrement(r) ==
    /\ oreq[r].pc = "decrement"
    /\ \E k \in oreq[r].todo :
          LET rest == oreq[r].todo \ {k} IN
          /\ stock' = DecrementStock(stock, oreq[r].items[k])
          /\ IF rest = {} THEN ODone(r, "created")
              ELSE OSet(r, [oreq[r] EXCEPT !.todo = rest])
    /\ UNCHANGED <<now, auctions, req, accepted, orders>>

(* Order.findById of the three update routes *)
OLoaded(q) == [q EXCEPT !.pc = "handler", !.orig = orders[q.id], !.doc = orders[q.id]]

OToSave(r, d) == OSet(r, [oreq[r] EXCEPT !.pc = "save", !.doc = d, !.res = "ok"])

(* order.save(): the modified paths are written *)
SaveOrder(stored, loaded, local) ==
    [user |-> stored.user,
     orderItems |-> stored.orderItems,
     sellerWiseStatus |->
        [k \in DOMAIN stored.sellerWiseStatus |->
            IF local.sellerWiseStatus[k].status # loaded.sellerWiseStatus[k].status
            THEN [stored.sellerWiseStatus[k] EXCEPT !.status = local.sellerWiseStatus[k].status]
            ELSE stored.sellerWiseStatus[k]],
     orderStatus |-> Pick(stored, loaded, local, "orderStatus"),
     isPaid |-> Pick(stored, loaded, local, "isPaid"),
     isDelivered |-> Pick(stored, loaded, local, "isDelivered")]

OrderSave(r) ==
    /\ oreq[r].pc = "save"
    /\ orders' = [orders EXCEPT ![oreq[r].id] = SaveOrder(@, oreq[r].orig, oreq[r].doc)]
    /\ ODone(r, oreq[r].res)
    /\ UNCHANGED <<now, stock, auctions, req, accepted>>

(* PUT api/orders/:id/pay *)
StartPay(r) ==
    /\ OFree(r)
    /\ \E i \in DOMAIN orders, u \in OrderRequesters :
          LET q == [OIdle EXCEPT !.op = "pay", !.id = i, !.user = u] IN
          IF Role(u) \notin {"admin", "seller"}
          THEN OSet(r, [q EXCEPT !.res = "roleDenied"])
          ELSE OSet(r, OLoaded(q))
    /\ UNCHANGED <<now, stock, auctions, req, accepted, orders>>

HandlePay(r) ==
    /\ oreq[r].op = "pay" /\ oreq[r].pc = "handler"
    /\ OToSave(r, [oreq[r].doc EXCEPT
                     !.isPaid = TRUE,
                     !.orderStatus = IF @ \in {"Pending", "Payment Failed"}
                                     THEN "Processing" ELSE @])
    /\ UNCHANGED <<now, stock, auctions, req, accepted, orders>>

(* PUT api/orders/:id/deliver *)
StartDeliver(r) ==
    /\ OFree(r)
    /\ \E i \in DOMAIN orders, u \in OrderRequesters :
          LET q == [OIdle EXCEPT !.op = "deliver", !.id = i, !.user = u] IN
          IF Role(u) # "admin"
          THEN OSet(r, [q EXCEPT !.res = "roleDenied"])
          ELSE OSet(r, OLoaded(q))
    /\ UNCHANGED <<now, stock, auctions, req, accepted, orders>>

HandleDeliver(r) ==
    /\ oreq[r].op = "deliver" /\ oreq[r].pc = "handler"
    /\ OToSave(r, [oreq[r].doc EXCEPT !.isDelivered = TRUE, !.orderStatus = "Delivered"])
    /\ UNCHANGED <<now, stock, auctions, req, accepted, orders>>

(* PUT api/orders/:orderId/seller/:sellerInOrderStatusId/status *)
StartSellerStatus(r) ==
    /\ OFree(r)
    /\ \E i \in DOMAIN orders, u \in OrderRequesters, k \in EntryIds, st \in StatusBodies :
          LET q == [OIdle EXCEPT !.op = "sellerStatus", !.id = i, !.user = u,
                                 !.entry = k, !.status = st] IN
          IF Role(u) \notin {"seller", "admin"}
          THEN OSet(r, [q EXCEPT !.res = "roleDenied"])
          ELSE IF st \notin SellerStatuses
          THEN OSet(r, [q EXCEPT !.res = "validation"])
          ELSE OSet(r, OLoaded(q))
    /\ UNCHANGED <<now, stock, auctions, req, accepted, orders>>

All(o, st) == \A k \in DOMAIN o.sellerWiseStatus : o.sellerWiseStatus[k].status = st

Some(o, sts) == \E k \in DOMAIN o.sellerWiseStatus : o.sellerWiseStatus[k].status \in sts

(* The overall status recomputed from the per-seller entries *)
OverallStatus(o) ==
    IF All(o, "Delivered") THEN [o EXCEPT !.orderStatus = "Delivered", !.isDelivered = TRUE]
    ELSE IF Some(o, {"Cancelled"})
    THEN [o EXCEPT !.orderStatus = IF All(o, "Cancelled") THEN "Cancelled" ELSE "Processing"]
    ELSE IF All(o, "Shipped") THEN [o EXCEPT !.orderStatus = "Shipped"]
    ELSE IF Some(o, {"Processing", "Shipped"}) THEN [o EXCEPT !.orderStatus = "Processing"]
    ELSE o

HandleSellerStatus(r) ==
    /\ oreq[r].op = "sellerStatus" /\ oreq[r].pc = "handler"
    /\ LET q == oreq[r]
           o == q.doc
       IN  IF q.entry \notin DOMAIN o.sellerWiseStatus THEN ODone(r, "entryNotFound")
           ELSE IF Role(q.user) # "admin" /\ o.sellerWiseStatus[q.entry].sellerId # q.user
           THEN ODone(r, "notAuthorized")
           ELSE OToSave(r, OverallStatus(
                    [o EXCEPT !.sellerWiseStatus[q.entry].status = q.status]))
    /\ UNCHANGED <<now, stock, auctions, req, accepted, orders>>

(* Order creation, two requests overlapping *)
InitOrders ==
    /\ now = 0
    /\ stock \in [OrderProducts -> 1..MaxQuantity]
    /\ auctions = <<>>
    /\ req = [r \in Slots |-> Idle]
    /\ accepted = <<>>
    /\ orders = <<>>
    /\ oreq = [r \in Slots |-> OIdle]

NextOrders ==
    \E r \in Slots :
       StartOrder(r) \/ OrderCheckItem(r) \/ OrderInsert(r) \/ OrderDecrement(r)

SpecOrders == InitOrders /\ [][NextOrders]_vars

(* One order as POST api/orders stored it, then pay, deliver and per-seller
   status requests, one at a time *)
DeliveryBodies ==
    {<<[product |-> "p1", quantity |-> 1]>>,
     <<[product |-> "p1", quantity |-> 1], [product |-> "p2", quantity |-> 1]>>}

InitDelivery ==
    /\ now = 0
    /\ stock = [p \in OrderProducts |-> 1]
    /\ auctions = <<>>
    /\ req = [r \in Slots |-> Idle]
    /\ accepted = <<>>
    /\ \E u \in OrderUsers, b \in DeliveryBodies : orders = <<NewOrder(u, b)>>
    /\ oreq = [r \in Slots |-> OIdle]

NextDelivery ==
    \/ StartPay(1) \/ HandlePay(1)
    \/ StartDeliver(1) \/ HandleDeliver(1)
    \/ StartSellerStatus(1) \/ HandleSellerStatus(1)
    \/ OrderSave(1)

SpecDelivery == InitDelivery /\ [][NextDelivery]_vars

----------------------------------------------------------------------------
(* Properties *)

IsPrefix(s, t) == Len(s) <= Len(t) /\ SubSeq(t, 1, Len(s)) = s

MaxOf(S) == CHOOSE x \in S : \A y \in S : y <= x

AcceptedOn(i) == {k \in DOMAIN accepted : accepted[k].id = i}

BidStep(r) == req[r].pc = "handler" /\ req[r].op = "bid" /\ req'[r] # req[r]

(* C1: in every reachable state, currentHighestBid of every stored auction is the
   amount of its last bid, or its startingBid when it has no bid. *)
C1_HighestIsLastBid ==
    \A i \in DOMAIN auctions :
        auctions[i].currentHighestBid =
            IF auctions[i].bids = <<>> THEN auctions[i].startingBid
            ELSE Last(auctions[i].bids).amount

C1_Witness ==
    \E i \in DOMAIN auctions :
        /\ Len(auctions[i].bids) = 2
        /\ auctions[i].currentHighestBid = auctions[i].bids[2].amount
        /\ auctions[i].currentHighestBid > auctions[i].bids[1].amount

(* C2: when two bid requests on one auction overlap, every bid answered 200 is in
   the stored history and the stored currentHighestBid is the largest amount
   answered 200 (never the smaller of two accepted amounts). *)
C2_NoLostBid ==
    \A i \in DOMAIN auctions :
        AcceptedOn(i) # {} =>
            /\ auctions[i].currentHighestBid =
                   MaxOf({accepted[k].bid.amount : k \in AcceptedOn(i)})
            /\ \A k \in AcceptedOn(i) :
                   \E j \in DOMAIN auctions[i].bids : auctions[i].bids[j] = accepted[k].bid

(* C3: once the status of an auction is Cancelled, Sold or Expired, no step changes
   it: not the stored status, and not the status a refresh computes on a loaded
   copy (in the middleware, in an update, in a list read, in the sweep), whatever
   the clock and the edited times. *)
C3_TerminalStays ==
    [][/\ \A i \in DOMAIN auctions :
             auctions[i].status \in Terminal => auctions'[i].status = auctions[i].status
       /\ \A r \in Slots :
             (req[r].doc.status \in Terminal /\ req'[r] # req[r]) =>
                 /\ req'[r].pc \in {"mwSave", "handler", "save", "sweepSave"}
                        => req'[r].doc.status = req[r].doc.status
                 /\ req[r].pc = "listLoaded" => req'[r].res = req[r].doc.status]_vars

C3_Witness ==
    /\ auctions # <<>>
    /\ auctions[1].status = "Cancelled"
    /\ auctions[1].startTime = T(3)
    /\ now = T(1)
    /\ req[1].op = "update"
    /\ req[1].pc = "mwSave"
    /\ req[1].doc.status = "Cancelled"

(* C4: on an auction that is not Cancelled, Sold or Expired, the refresh yields
   Upcoming before startTime, Active from startTime to before endTime, and from
   endTime on Ended when there is a highest bidder and the highest bid reaches
   the reserve (0 when absent), else Expired; the middleware stores that status. *)
ClaimedStatus(a, t) ==
    IF t < a.startTime THEN "Upcoming"
    ELSE IF a.startTime <= t /\ t < a.endTime THEN "Active"
    ELSE IF a.currentHighestBidder # Null
            /\ a.currentHighestBid >= (IF a.reservePrice = Undefined THEN 0
                                       ELSE a.reservePrice)
    THEN "Ended"
    ELSE "Expired"

C4_RefreshRule ==
    \A r \in Slots :
        /\ (req[r].pc = "mwSave" /\ req[r].orig.status \notin Terminal)
              => req[r].doc.status = ClaimedStatus(req[r].orig, now)
        /\ (req[r].pc = "handler" /\ req[r].doc.status \notin Terminal)
              => /\ auctions[req[r].id].status = req[r].doc.status
                 /\ req[r].doc.status = ClaimedStatus(req[r].doc, now)

C4_Witness ==
    /\ req[1].pc = "mwSave"
    /\ req[1].orig.status = "Pending"
    /\ req[1].orig.currentHighestBidder # Null
    /\ req[1].orig.reservePrice = 10150
    /\ req[1].orig.endTime = now
    /\ req[1].doc.status = "Expired"

(* C5: a bid request reports the first failing check, in this order: the auction
   is not Active (400); the bidder is the seller (403), whatever the amount; the
   amount is not above currentHighestBid (400); there are earlier bids and the
   amount is below currentHighestBid + 1% of startingBid (400).  Otherwise the
   bid goes on to be saved. *)
C5_BidCheckOrder ==
    [][\A r \in Slots :
         BidStep(r) =>
            LET a == req[r].doc
                u == req'[r].user
                amt == req'[r].body.amount
                res == req'[r].res
                active == a.status = "Active"
                own == a.seller = u
                low == amt <= a.currentHighestBid
                short == /\ a.bids # <<>>
                         /\ amt * 100 < a.currentHighestBid * 100 + a.startingBid
            IN  /\ ~active => res = "notActive" /\ HttpStatus(res) = 400
                /\ (active /\ own) => res = "ownAuction" /\ HttpStatus(res) = 403
                /\ (active /\ ~own /\ low) => res = "notHigher" /\ HttpStatus(res) = 400
                /\ (active /\ ~own /\ ~low /\ short)
                      => res = "belowIncrement" /\ HttpStatus(res) = 400
                /\ (active /\ ~own /\ ~low /\ ~short)
                      => res = "ok" /\ req'[r].pc = "save"
                /\ res # "ok" => req'[r].pc = "done"]_vars

C5_Witness ==
    /\ req[1].op = "bid"
    /\ req[1].pc = "done"
    /\ req[1].res = "ownAuction"
    /\ auctions[req[1].id].status = "Active"
    /\ auctions[req[1].id].bids # <<>>
    /\ req[1].body.amount <= auctions[req[1].id].currentHighestBid

(* C6: the amounts of the stored bids are strictly increasing: the first is above
   startingBid and every later one is at least the one before plus 1% of
   startingBid (requests served one at a time). *)
C6_BidsIncrease ==
    \A i \in DOMAIN auctions :
        LET a == auctions[i] IN
        \A k \in DOMAIN a.bids :
            IF k = 1 THEN a.bids[1].amount > a.startingBid
            ELSE /\ a.bids[k].amount > a.bids[k - 1].amount
                 /\ a.bids[k].amount * 100 >= a.bids[k - 1].amount * 100 + a.startingBid

C6_Witness ==
    /\ auctions # <<>>
    /\ Len(auctions[1].bids) = 2
    /\ auctions[1].startingBid = 10000
    /\ auctions[1].bids[1].amount = 10100
    /\ auctions[1].bids[2].amount = 10200
    /\ req[1].op = "bid"
    /\ req[1].res = "ok"
    /\ req[1].body.amount = 10200

(* C7: a bid accepted at instant t with less than five minutes left moves endTime
   to t + 5 minutes (not the old endTime + 5 minutes); with five minutes or more
   left, exactly five included, it leaves endTime alone.  So the auction the
   request holds ends no sooner than five minutes after the bid, and the save
   stores an endTime the bid has moved. *)
C7_AntiSniping ==
    [][/\ \A r \in Slots :
             (BidStep(r) /\ req'[r].pc = "save") =>
                LET old == req[r].doc.endTime
                    new == req'[r].doc.endTime
                IN  /\ Last(req'[r].doc.bids).timestamp = now
                    /\ old - now < FiveMinutes => new = now + FiveMinutes
                    /\ old - now >= FiveMinutes => new = old
                    /\ new >= now + FiveMinutes
       /\ \A r \in Slots :
             (/\ req[r].pc = "save"
              /\ req[r].op = "bid"
              /\ req'[r].pc = "done"
              /\ req[r].doc.endTime # req[r].orig.endTime) =>
                auctions'[req[r].id].endTime = req[r].doc.endTime]_vars

C7_Witness ==
    /\ req[1].op = "bid"
    /\ req[1].pc = "save"
    /\ req[1].orig.endTime - Last(req[1].doc.bids).timestamp < FiveMinutes
    /\ req[1].doc.endTime = Last(req[1].doc.bids).timestamp + FiveMinutes
    /\ req[1].doc.endTime # req[1].orig.endTime + FiveMinutes

(* C8: in every reachable state, currentHighestBidder of a stored auction is null
   exactly when the auction has no bid, and otherwise is the bidder of its last
   bid. *)
C8_BidderIsLastBidder ==
    \A i \in DOMAIN auctions :
        /\ auctions[i].currentHighestBidder # Null <=> auctions[i].bids # <<>>
        /\ auctions[i].bids # <<>> =>
              auctions[i].currentHighestBidder = Last(auctions[i].bids).user

C8_Witness ==
    \E i \in DOMAIN auctions :
        /\ Len(auctions[i].bids) = 2
        /\ auctions[i].bids[1].user # auctions[i].bids[2].user
        /\ auctions[i].currentHighestBidder = auctions[i].bids[2].user

(* C9: the stored bid history is append-only: over every step of every operation
   the stored bids before the step are a prefix of the stored bids after it. *)
C9_BidsAppendOnly ==
    [][\A i \in DOMAIN auctions : IsPrefix(auctions[i].bids, auctions'[i].bids)]_vars

C9_Witness ==
    /\ auctions # <<>>
    /\ Len(auctions[1].bids) = 2
    /\ req[1].op = "getBids"
    /\ req[1].pc = "done"
    /\ req[1].doc.bids = <<auctions[1].bids[2], auctions[1].bids[1]>>
    /\ auctions[1].bids[1].timestamp < auctions[1].bids[2].timestamp

(* C10: in every reachable state, create requests overlapping or not, a product
   has at most one auction whose status is Pending, Upcoming or Active. *)
C10_OneOpenAuction ==
    \A p \in Products :
        Cardinality({i \in DOMAIN auctions :
                        auctions[i].product = p /\ auctions[i].status \in Blocking}) <= 1

C10_Witness ==
    /\ Len(auctions) = 1
    /\ auctions[1].status \in Blocking
    /\ req[1].op = "create"
    /\ req[1].res = "created"
    /\ req[2].op = "create"
    /\ req[2].res = "serverError"

CreateChecked(r) == req[r].op = "create" /\ req[r].pc = "cFind" /\ req'[r] # req[r]

CreateSaved(r) == req[r].op = "create" /\ req[r].pc = "cSave" /\ req'[r] # req[r]

(* C11: a create by an authorized requester for an existing product is refused
   (400) exactly when the product has an auction that is Pending, Upcoming or
   Active, or has no stock; otherwise it succeeds (201) and stores the auction,
   also when the product has earlier auctions that are Cancelled, Sold, Expired
   or Ended. *)
C11_CreateConflict ==
    [][\A r \in Slots :
         /\ CreateChecked(r) =>
               LET p == req[r].body.product
                   refused == ExistingAuction(auctions, p) \/ stock[p] < 1
               IN  /\ refused <=> req'[r].res \in {"duplicate", "outOfStock"}
                   /\ refused => req'[r].pc = "done" /\ HttpStatus(req'[r].res) = 400
                   /\ ~refused => req'[r].pc = "cSave"
         /\ CreateSaved(r) =>
               /\ req'[r].res = "created"
               /\ HttpStatus(req'[r].res) = 201
               /\ Len(auctions') = Len(auctions) + 1]_vars

(* C12: right after a successful create the stored new auction has
   currentHighestBid = startingBid, no bid, no highest bidder and no winner. *)
C12_NewAuctionFields ==
    [][\A r \in Slots :
         (CreateSaved(r) /\ req'[r].res = "created") =>
            LET a == auctions'[req'[r].id] IN
            /\ req'[r].id = Len(auctions')
            /\ a.startingBid = req[r].body.startingBid
            /\ a.currentHighestBid = a.startingBid
            /\ a.bids = <<>>
            /\ a.currentHighestBidder = Null
            /\ a.winner = Null]_vars

C12_Witness ==
    /\ req[1].op = "create"
    /\ req[1].res = "created"
    /\ auctions[req[1].id].reservePrice = 10150
    /\ auctions[req[1].id].currentHighestBid = 10000
    /\ auctions[req[1].id].bids = <<>>

(* C13: the status of a new auction is the one the refresh derives when it is
   built: Upcoming before startTime, Active from startTime to before endTime,
   Expired from endTime on (a create with both times in the past is accepted);
   the save stores that status, never Ended, Sold, Cancelled or Pending. *)
C13_NewAuctionStatus ==
    [][\A r \in Slots :
         /\ (CreateChecked(r) /\ req'[r].pc = "cSave") =>
               LET b == req[r].body IN
               req'[r].doc.status =
                   IF now < b.startTime THEN "Upcoming"
                   ELSE IF now < b.endTime THEN "Active"
                   ELSE "Expired"
         /\ (CreateSaved(r) /\ req'[r].res = "created") =>
               /\ auctions'[req'[r].id].status = req[r].doc.status
               /\ auctions'[req'[r].id].status \in {"Upcoming", "Active", "Expired"}]_vars

C13_Witness ==
    /\ req[1].op = "create"
    /\ req[1].res = "created"
    /\ auctions[req[1].id].endTime > auctions[req[1].id].startTime
    /\ auctions[req[1].id].endTime < now
    /\ auctions[req[1].id].status = "Expired"
    /\ auctions[req[1].id].viewCount = 0

(* C14: an update of an auction that has a bid is refused (400) whenever its body
   holds startingBid, product or reservePrice, whatever the value (reservePrice 0
   included); so the stored reservePrice, startingBid and product of an auction
   with a bid never change. *)
C14_LockedAfterBids ==
    [][/\ \A r \in Slots :
             (AtHandler(r, "update") /\ Len(req[r].doc.bids) > 0 /\ req'[r] # req[r]) =>
                \A u \in Requesters, b \in UpdateBodies :
                    (/\ UpdateVerdict(req[r].doc, u, b) \notin {"validation", "notAuthorized"}
                     /\ \/ b.startingBid # Undefined
                        \/ b.product # Null
                        \/ b.reservePrice # Undefined)
                    => /\ UpdateVerdict(req[r].doc, u, b) = "bidsPlaced"
                       /\ HttpStatus(UpdateVerdict(req[r].doc, u, b)) = 400
       /\ \A i \in DOMAIN auctions :
             Len(auctions[i].bids) > 0 =>
                /\ auctions'[i].reservePrice = auctions[i].reservePrice
                /\ auctions'[i].startingBid = auctions[i].startingBid
                /\ auctions'[i].product = auctions[i].product]_vars

(* C15: a cancel by the seller or an admin succeeds, and stores status Cancelled,
   exactly when the refreshed status is not Ended, Sold or Expired and, for an
   Active auction with a bid, the requester is an admin.  A seller who is not an
   admin is refused with Forbidden (403) on an Active auction with a bid; a
   cancel of an Ended, Sold or Expired auction is refused with InvalidState
   (400); a refused cancel stores nothing. *)
C15_CancelRule ==
    [][\A r \in Slots :
         /\ (AtHandler(r, "cancel") /\ req'[r] # req[r]) =>
               LET a == req[r].doc IN
               /\ \A u \in Requesters :
                     (a.seller = u \/ Role(u) = "admin") =>
                        LET v == CancelVerdict(a, u)
                            closed == a.status \in {"Ended", "Sold", "Expired"}
                            needsAdmin == /\ a.status = "Active"
                                          /\ Len(a.bids) > 0
                                          /\ Role(u) # "admin"
                        IN  /\ v = "ok" <=> (~closed /\ ~needsAdmin)
                            /\ closed => (v = "cannotCancel" /\ HttpStatus(v) = 400)
                            /\ (~closed /\ needsAdmin)
                                  => (v = "activeWithBids" /\ HttpStatus(v) = 403)
               /\ req'[r].pc = "save" => req'[r].doc = [a EXCEPT !.status = "Cancelled"]
               /\ req'[r].pc = "done" => auctions' = auctions
         /\ (req[r].op = "cancel" /\ req[r].pc = "save" /\ req'[r].pc = "done") =>
               /\ auctions'[req[r].id].status = "Cancelled"
               /\ auctions'[req[r].id].bids = auctions[req[r].id].bids
               /\ auctions'[req[r].id].winner = auctions[req[r].id].winner]_vars

SettleStep(r) == AtHandler(r, "settle") /\ req'[r] # req[r]

Authorized(a, u) == a.seller = u \/ Role(u) = "admin"

(* C16: a settle by the seller or an admin succeeds only when the refreshed status
   is Ended and there is a highest bidder; it then stores winner =
   currentHighestBidder and status Sold.  In every other status (Upcoming,
   Active, Expired, Cancelled, Sold) it is refused with 400 and stores
   nothing. *)
C16_SettleRule ==
    [][\A r \in Slots :
         /\ (SettleStep(r) /\ Authorized(req[r].doc, req[r].user)) =>
               LET a == req[r].doc IN
               /\ req'[r].res = "ok" =>
                     /\ a.status = "Ended"
                     /\ a.currentHighestBidder # Null
                     /\ req'[r].pc = "save"
                     /\ req'[r].doc = [a EXCEPT !.winner = a.currentHighestBidder,
                                                  !.status = "Sold"]
               /\ a.status # "Ended" =>
                     /\ req'[r].res = "notEnded"
                     /\ HttpStatus(req'[r].res) = 400
                     /\ req'[r].pc = "done"
                     /\ auctions' = auctions
         /\ (/\ req[r].op = "settle"
             /\ req[r].pc = "save"
             /\ req[r].res = "ok"
             /\ req'[r].pc = "done") =>
               /\ auctions'[req[r].id].status = "Sold"
               /\ auctions'[req[r].id].winner = auctions[req[r].id].currentHighestBidder
               /\ auctions'[req[r].id].winner # Null]_vars

C16_Witness ==
    /\ req[1].op = "settle"
    /\ req[1].res = "notEnded"
    /\ auctions[req[1].id].status = "Sold"
    /\ auctions[req[1].id].winner = auctions[req[1].id].currentHighestBidder
    /\ auctions[req[1].id].winner # Null

BelowReserve(a) ==
    /\ a.bids # <<>>
    /\ a.reservePrice # Undefined
    /\ a.currentHighestBid < a.reservePrice

(* C17: an auction that is past its endTime with a highest bid below its
   reservePrice is refreshed to Expired, never to Ended; it is never stored as
   Ended or Sold, its winner stays null, and every settle of it is refused with
   400 and stores nothing. *)
C17_ReserveNotMet ==
    [][/\ \A i \in DOMAIN auctions' :
             (BelowReserve(auctions'[i]) /\ now' >= auctions'[i].endTime) =>
                /\ auctions'[i].status \notin {"Ended", "Sold"}
                /\ auctions'[i].winner = Null
                /\ Refreshed(auctions'[i], now').status \in {"Expired", "Cancelled"}
       /\ \A r \in Slots :
             (/\ SettleStep(r)
              /\ Authorized(req[r].doc, req[r].user)
              /\ BelowReserve(req[r].doc)
              /\ now >= req[r].doc.endTime) =>
                /\ req'[r].res = "notEnded"
                /\ HttpStatus(req'[r].res) = 400
                /\ req'[r].pc = "done"
                /\ auctions' = auctions]_vars

C17_Witness ==
    /\ req[1].op = "settle"
    /\ req[1].res = "notEnded"
    /\ BelowReserve(auctions[req[1].id])
    /\ now >= auctions[req[1].id].endTime
    /\ auctions[req[1].id].status = "Expired"
    /\ auctions[req[1].id].winner = Null

(* C18: in every reachable state the winner of a stored auction is non-null only
   when its status is Sold. *)
C18_WinnerOnlySold ==
    \A i \in DOMAIN auctions :
        auctions[i].winner # Null => auctions[i].status = "Sold"

(* C19: when a bid request overlaps a settle or a cancel request, once the stored
   status is Sold or Cancelled no step appends a bid, changes currentHighestBid,
   currentHighestBidder or endTime, or moves the stored status. *)
C19_ClosedStaysClosed ==
    [][\A i \in DOMAIN auctions :
         auctions[i].status \in {"Sold", "Cancelled"} =>
            /\ auctions'[i].bids = auctions[i].bids
            /\ auctions'[i].currentHighestBid = auctions[i].currentHighestBid
            /\ auctions'[i].currentHighestBidder = auctions[i].currentHighestBidder
            /\ auctions'[i].endTime = auctions[i].endTime
            /\ auctions'[i].status = auctions[i].status]_vars

SweepIds(batch) == {batch[k].id : k \in DOMAIN batch}

(* C20: a sweep started at instant t finds exactly the stored auctions that are
   Upcoming or Active with endTime <= t; it saves each of them with status Ended
   or Expired, ends only when it has saved them all, and changes no other
   auction. *)
C20_SweepRule ==
    [][\A r \in Slots :
         /\ (req[r].pc = "done" /\ req'[r].op = "sweep" /\ req'[r] # req[r]) =>
               LET due == {i \in DOMAIN auctions :
                              /\ auctions[i].status \in {"Upcoming", "Active"}
                              /\ auctions[i].endTime <= now}
               IN  /\ SweepIds(req'[r].batch) = due
                   /\ Len(req'[r].batch) = Cardinality(due)
                   /\ req'[r].pc = "done" <=> due = {}
                   /\ auctions' = auctions
         /\ (req[r].pc = "sweepNext" /\ req'[r] # req[r]) =>
               /\ req'[r].pc = "sweepSave"
               /\ req'[r].id = Head(req[r].batch).id
               /\ auctions' = auctions
         /\ (req[r].pc = "sweepSave" /\ req'[r] # req[r]) =>
               /\ auctions'[req[r].id].status \in {"Ended", "Expired"}
               /\ \A i \in DOMAIN auctions : i # req[r].id => auctions'[i] = auctions[i]
               /\ req'[r].pc = "done" <=> req[r].batch = <<>>]_vars

(* C21: the refresh is idempotent and touches the status alone: on every stored
   auction and at every instant, refreshing twice at that instant gives the
   auction one refresh gives, which differs from the original in status at most;
   so for the copy the middleware has refreshed. *)
C21_RefreshIdempotent ==
    /\ \A i \in DOMAIN auctions :
          LET a == auctions[i]
              b == Refreshed(a, now)
          IN  /\ Refreshed(b, now) = b
              /\ b = [a EXCEPT !.status = b.status]
    /\ \A r \in Slots :
          req[r].pc = "mwSave" =>
             /\ req[r].doc = [req[r].orig EXCEPT !.status = req[r].doc.status]
             /\ Refreshed(req[r].doc, now) = req[r].doc

C21_Witness ==
    /\ req[1].pc = "mwSave"
    /\ req[1].orig.status = "Active"
    /\ req[1].doc.status = "Ended"
    /\ req[1].doc.winner = Null
    /\ Refreshed(req[1].doc, now) = req[1].doc

(* C22: the stored viewCount never decreases, and the save that completes a
   single-auction read leaves it one above the value stored just before,
   whatever other reads of the auction are in flight. *)
C22_ViewCountByOne ==
    [][ /\ \A i \in DOMAIN auctions : auctions'[i].viewCount >= auctions[i].viewCount
        /\ \A r \in Slots :
              (req[r].op = "get" /\ req[r].pc = "save" /\ req'[r].pc = "done") =>
                 auctions'[req[r].id].viewCount = auctions[req[r].id].viewCount + 1 ]_vars

(* C23: every stored auction ends strictly after it starts, whatever updates
   (of startTime alone, of endTime alone, of both) and bids came before. *)
C23_EndAfterStart ==
    \A i \in DOMAIN auctions : auctions[i].endTime > auctions[i].startTime

(* C24: requests served one at a time.  A stored auction that has a bid keeps
   its startTime; its endTime moves only in the save of an accepted bid, to five
   minutes after that bid, and forward; and refreshed at the current instant it
   is not Upcoming. *)
C24_TimesFrozenAfterBid ==
    [][ \A i \in DOMAIN auctions :
          LET a == auctions[i]
              b == auctions'[i]
          IN  Len(b.bids) > 0 =>
                /\ b.startTime = a.startTime
                /\ b.endTime >= a.endTime
                /\ b.endTime # a.endTime =>
                      /\ Len(b.bids) = Len(a.bids) + 1
                      /\ b.endTime = Last(b.bids).timestamp + FiveMinutes
                      /\ \E r \in Slots : req[r].op = "bid" /\ req[r].pc = "save" /\ req[r].id = i
                /\ updateAuctionStatus(b, now') # "Upcoming" ]_vars

C24_Witness ==
    /\ req[1].op = "update"
    /\ req[1].res = "timingLocked"
    /\ Len(auctions[req[1].id].bids) > 0
    /\ auctions[req[1].id].endTime = Last(auctions[req[1].id].bids).timestamp + FiveMinutes

(* C25: a stored auction with status Sold has a winner, who is its current
   highest bidder and not its seller, has at least one bid, and its highest bid
   is at least its reserve price (0 when there is none). *)
C25_SoldIsSettled ==
    \A i \in DOMAIN auctions :
       LET a == auctions[i] IN
       a.status = "Sold" =>
          /\ a.winner # Null
          /\ a.winner = a.currentHighestBidder
          /\ Len(a.bids) > 0
          /\ a.winner # a.seller
          /\ a.currentHighestBid >= ReserveOrZero(a)

(* C26: a bid is recorded inside the live window of its auction: the bid a
   request is about to save has a timestamp at or after startTime and before the
   endTime the auction had before this bid extended it. *)
C26_BidInsideWindow ==
    \A r \in Slots :
       (req[r].op = "bid" /\ req[r].pc = "save") =>
          LET b == Last(req[r].doc.bids) IN
          /\ req[r].orig.startTime <= b.timestamp
          /\ b.timestamp < req[r].orig.endTime

(* C27: the reserve-not-met branch of process-winner is never taken: a settle
   request whose refreshed copy is Ended has a highest bidder and a highest bid
   at or above the reserve price, so it never answers reserveNotMet and never
   moves the auction from Ended to Expired. *)
C27_ReserveBranchDead ==
    \A r \in Slots :
       /\ (req[r].op = "settle" /\ req[r].pc = "handler" /\ req[r].doc.status = "Ended") =>
             /\ req[r].doc.currentHighestBidder # Null
             /\ req[r].doc.currentHighestBid >= ReserveOrZero(req[r].doc)
       /\ req[r].op = "settle" => req[r].res # "reserveNotMet"

C27_Witness ==
    /\ req[1].op = "settle"
    /\ req[1].res = "ok"
    /\ req[1].pc = "save"
    /\ req[1].orig.status = "Ended"
    /\ req[1].orig.reservePrice = 10150
    /\ req[1].doc.status = "Sold"

(* C28: a bid request that is not accepted writes nothing to the stored auction
   but its status: each of its steps leaves bids, currentHighestBid,
   currentHighestBidder, endTime and winner, and every other field, as stored. *)
C28_RejectedBidFrame ==
    [][ \A r \in Slots :
          (req[r].op = "bid" /\ req'[r] # req[r] /\ req'[r].res # "ok") =>
             LET a == auctions[req[r].id]
                 b == auctions'[req[r].id]
             IN  /\ b = [a EXCEPT !.status = b.status]
                 /\ b.bids = a.bids
                 /\ b.currentHighestBid = a.currentHighestBid
                 /\ b.currentHighestBidder = a.currentHighestBidder
                 /\ b.endTime = a.endTime
                 /\ b.winner = a.winner ]_vars

C28_Witness ==
    /\ req[1].op = "bid"
    /\ req[1].pc = "done"
    /\ req[1].res = "notActive"
    /\ auctions[req[1].id].status = "Ended"
    /\ Len(auctions[req[1].id].bids) > 0
    /\ auctions[req[1].id].winner = Null

(* C29: order creation never drives the stock of a product below zero,
   whatever orders are placed and however their requests interleave, an order
   naming the same product in two items included. *)
C29_StockNotNegative ==
    \A p \in DOMAIN stock : stock[p] >= 0

(* C30: after every step of a pay, deliver or per-seller status request, an
   order has isDelivered exactly when its orderStatus is Delivered; and a
   per-seller status update that leaves orderStatus Delivered leaves every
   per-seller entry Delivered. *)
C30_DeliveredConsistent ==
    [][ /\ \A i \in DOMAIN orders' :
              orders'[i].isDelivered <=> (orders'[i].orderStatus = "Delivered")
        /\ \A r \in Slots :
              (oreq[r].op = "sellerStatus" /\ oreq[r].pc = "save" /\ oreq'[r].pc = "done") =>
                 LET o == orders'[oreq[r].id] IN
                 o.orderStatus = "Delivered" => All(o, "Delivered") ]_vars

====
